---- MODULE Spec2Model ----
(***************************************************************************)
(* sportypy.data.frames: the Narwhals-based dataframe adapter.             *)
(*                                                                         *)
(* The module has four functions, each a thin call into narwhals:          *)
(*   wrap_frame(df)                      = nw.from_native(df)              *)
(*   to_native(df)                       = df.to_native()                  *)
(*   create_empty_frame(schema, backend) = build an empty polars / pandas  *)
(*                                         frame, then nw.from_native      *)
(*   concat_frames(frames, how)          = nw.concat(frames, how=how)      *)
(*                                                                         *)
(* The state is the caller's object heap (native tables, narwhals          *)
(* wrappers, other Python objects), the outcome of the last call, and the  *)
(* call itself.  Objects are referred to by their heap index, so that a    *)
(* wrapper is a view of a native table and not a copy of it.               *)
(*   heap    the objects, in order of creation                             *)
(*   op      the last call and its arguments as passed                     *)
(*   ret     what the last call returned or raised                         *)
(*   raised  the exception raised below the adapter during the last call   *)
(*   args    the schema dict / frames list of the last call as it left it  *)
(*   snap    for a frame made by wrap_frame, the table as it was wrapped   *)
(*                                                                         *)
(* narwhals, polars and pandas are libraries the module calls; they are    *)
(* written down here as they document themselves: from_native raises       *)
(* TypeError for what is no dataframe, concat raises ValueError for no     *)
(* items, a vertical concat wants the same column names in the same order  *)
(* (and polars the same dtypes), a diagonal concat takes the union of the  *)
(* columns and fills with nulls.  pandas result dtypes follow its          *)
(* common-type rule with no special case for empty frames.                 *)
(*                                                                         *)
(* Inputs the model draws: native tables with one or two uniquely named    *)
(* integer columns, concat modes "vertical" and "diagonal", frame lists of *)
(* zero to two wrapped frames of one backend.                              *)
(***************************************************************************)
EXTENDS Integers, Sequences, FiniteSets, TLC

VARIABLES heap, ret, op, raised, args, snap

vars == <<heap, ret, op, raised, args, snap>>

\* Bounds of the model.
MaxRows == 2
MaxHeap == 6

(***************************************************************************)
(* Values                                                                  *)
(***************************************************************************)
Names == {"id", "score"}

\* The identifiers create_empty_frame accepts (frames.py:95, 101).
Backends == {"polars", "pandas"}

\* Identifiers a caller may pass.
BackendIds == Backends \cup {"unsupported_engine"}

\* Schema values: the four Python types of the type maps, a hashable type
\* that is in neither map (bytes), and an unhashable value (a list).
PyTypes == {"int", "float", "str", "bool"}

SchemaValues == PyTypes \cup {"bytes", "unhashable"}

Hashable(t) == t # "unhashable"

\* Concatenation modes drawn.
Hows == {"vertical", "diagonal"}

\* The missing-value marker of a cell (polars null, pandas NaN).
NullMarker == 0

NoErr == [cls |-> "", origin |-> ""]

Err(cls, origin) == [cls |-> cls, origin |-> origin]

Ok(id) == [ok |-> TRUE, val |-> id, err |-> NoErr]

Fail(e) == [ok |-> FALSE, val |-> 0, err |-> e]

\* Heap objects.  kind is "polars" or "pandas" for a native table, "nw" for a
\* narwhals DataFrame (native = heap index of the table it wraps), "other"
\* for any Python object that is not a table.
Table(kind, cols, rows) == [kind |-> kind, cols |-> cols, rows |-> rows, native |-> 0]

Wrapper(id) == [kind |-> "nw", cols |-> <<>>, rows |-> <<>>, native |-> id]

Other == [kind |-> "other", cols |-> <<>>, rows |-> <<>>, native |-> 0]

NoSnap == [kind |-> "none", cols |-> <<>>, rows |-> <<>>, native |-> 0]

IsNative(o) == o.kind \in Backends

IsWrapped(o) == o.kind = "nw"

Col(name, dtype) == [name |-> name, dtype |-> dtype]

ColNames(cols) == [i \in 1..Len(cols) |-> cols[i].name]

ColTypes(cols) == [i \in 1..Len(cols) |-> cols[i].dtype]

Range(s) == {s[i] : i \in 1..Len(s)}

IntType(kind) == IF kind = "polars" THEN "Int64" ELSE "int64"

(***************************************************************************)
(* Tables the caller holds before any call: produced outside the adapter.  *)
(* Row r of the table in heap slot s holds 10*s + r in every cell, so that *)
(* every row of the heap is told apart from every other.  The two column   *)
(* names are interchangeable, so the table of slot 1 starts with "id".     *)
(***************************************************************************)
ColSeqs(slot) ==
    IF slot = 1 THEN {<<"id">>, <<"id", "score">>}
    ELSE {<<"id">>, <<"score">>, <<"id", "score">>, <<"score", "id">>}

SeedTable(kind, names, n, slot) ==
    Table(kind,
          [c \in 1..Len(names) |-> Col(names[c], IntType(kind))],
          [r \in 1..n |-> [c \in 1..Len(names) |-> 10 * slot + r]])

Seeds(slot) ==
    {SeedTable(k, ns, n, slot) : k \in Backends, ns \in ColSeqs(slot), n \in {0, MaxRows}}

(***************************************************************************)
(* narwhals and the two backends, as far as the adapter calls them         *)
(***************************************************************************)
\* nw.from_native(df): a narwhals DataFrame is returned as it is, a polars or
\* pandas table gets a new wrapper that refers to it, anything else raises
\* TypeError.
nw_from_native(h, i) ==
    IF IsWrapped(h[i]) THEN [heap |-> h, ret |-> Ok(i)]
    ELSE IF IsNative(h[i])
         THEN [heap |-> Append(h, Wrapper(i)), ret |-> Ok(Len(h) + 1)]
         ELSE [heap |-> h, ret |-> Fail(Err("TypeError", "narwhals"))]

\* DataFrame.to_native(): the table the wrapper refers to.
nw_to_native(h, i) == [heap |-> h, ret |-> Ok(h[i].native)]

\* dict.get(key, default); an unhashable key raises TypeError before any lookup.
DictGet(d, k, default) == IF k \in DOMAIN d THEN d[k] ELSE default

\* Index of the first column at which two equally wide tables differ in name
\* or dtype, 0 when there is none.
FirstDiff(a, b) ==
    LET bad == {j \in 1..Len(a) : a[j] # b[j]}
    IN IF bad = {} THEN 0 ELSE CHOOSE j \in bad : \A k \in bad : j <= k

TabOk(t) == [ok |-> TRUE, tab |-> t, err |-> NoErr]

TabFail(e) == [ok |-> FALSE, tab |-> NoSnap, err |-> e]

\* polars DataFrame.vstack: widths, then column by column names and dtypes.
pl_vstack(acc, t) ==
    IF Len(acc.cols) # Len(t.cols) THEN TabFail(Err("ShapeError", "polars"))
    ELSE LET j == FirstDiff(acc.cols, t.cols)
         IN IF j = 0 THEN TabOk([acc EXCEPT !.rows = acc.rows \o t.rows])
            ELSE IF acc.cols[j].name # t.cols[j].name
                 THEN TabFail(Err("ShapeError", "polars"))
                 ELSE TabFail(Err("SchemaError", "polars"))

\* Union of the columns of the tables, in order of first appearance.
RECURSIVE UnionCols(_)
UnionCols(tabs) ==
    IF tabs = <<>> THEN <<>>
    ELSE LET front == UnionCols(SubSeq(tabs, 1, Len(tabs) - 1))
             last == tabs[Len(tabs)].cols
             have == Range(ColNames(front))
         IN front \o SelectSeq(last, LAMBDA c : c.name \notin have)

Pos(names, n) == CHOOSE j \in 1..Len(names) : names[j] = n

\* The rows of t laid out on the columns `cols`, NullMarker where t has no
\* such column.
Widen(t, cols) ==
    LET tn == ColNames(t.cols)
    IN [r \in 1..Len(t.rows) |->
          [c \in 1..Len(cols) |->
              IF cols[c].name \in Range(tn)
              THEN t.rows[r][Pos(tn, cols[c].name)]
              ELSE NullMarker]]

RECURSIVE AllRows(_, _)
AllRows(tabs, cols) ==
    IF tabs = <<>> THEN <<>>
    ELSE Widen(tabs[1], cols) \o AllRows(Tail(tabs), cols)

\* Some column name has two dtypes among the tables.
DtypeClash(tabs) ==
    \E a \in Range(tabs), b \in Range(tabs) :
        \E x \in Range(a.cols), y \in Range(b.cols) :
            x.name = y.name /\ x.dtype # y.dtype

\* polars.concat(dfs, how=...)
RECURSIVE pl_concat_vertical(_, _)
pl_concat_vertical(acc, rest) ==
    IF rest = <<>> THEN TabOk(acc)
    ELSE LET r == pl_vstack(acc, rest[1])
         IN IF r.ok THEN pl_concat_vertical(r.tab, Tail(rest)) ELSE r

pl_concat_diagonal(tabs) ==
    IF DtypeClash(tabs) THEN TabFail(Err("SchemaError", "polars"))
    ELSE LET cols == UnionCols(tabs)
         IN TabOk(Table("polars", cols, AllRows(tabs, cols)))

\* pandas: the dtype of a column put together from dtypes a and b.
pd_common_type(a, b) ==
    IF a = b THEN a
    ELSE IF {a, b} = {"int64", "float64"} THEN "float64"
    ELSE "object"

\* pandas: the dtype of a column that gets NaN cells.
pd_with_nan(a) ==
    IF a = "int64" THEN "float64" ELSE IF a = "bool" THEN "object" ELSE a

RECURSIVE pd_fold_type(_)
pd_fold_type(ds) ==
    IF Len(ds) = 1 THEN ds[1] ELSE pd_common_type(ds[1], pd_fold_type(Tail(ds)))

\* pandas.concat(dfs, axis=0): outer join of the columns, rows in order.
pd_concat_rows(tabs) ==
    LET cols == UnionCols(tabs)
        typed == [c \in 1..Len(cols) |->
                    LET holders == SelectSeq(tabs,
                                     LAMBDA t : cols[c].name \in Range(ColNames(t.cols)))
                        ds == [k \in 1..Len(holders) |->
                                 holders[k].cols[Pos(ColNames(holders[k].cols),
                                                     cols[c].name)].dtype]
                        d == pd_fold_type(ds)
                    IN Col(cols[c].name,
                           IF Len(holders) = Len(tabs) THEN d ELSE pd_with_nan(d))]
    IN TabOk(Table("pandas", typed, AllRows(tabs, cols)))

\* narwhals' pandas-like vertical concat: every frame must carry the column
\* names of the first, in the same order, else TypeError.
pd_concat_vertical(tabs) ==
    IF \E k \in 1..Len(tabs) : ColNames(tabs[k].cols) # ColNames(tabs[1].cols)
    THEN TabFail(Err("TypeError", "narwhals"))
    ELSE pd_concat_rows(tabs)

\* nw.concat(items, how=how): no items is a ValueError; otherwise the
\* backend of the first item concatenates and the result is wrapped.
nw_concat(h, frames, how) ==
    IF frames = <<>> THEN [heap |-> h, ret |-> Fail(Err("ValueError", "narwhals"))]
    ELSE LET tabs == [k \in 1..Len(frames) |-> h[h[frames[k]].native]]
             r == IF tabs[1].kind = "polars"
                  THEN IF how = "vertical"
                       THEN pl_concat_vertical(tabs[1], Tail(tabs))
                       ELSE pl_concat_diagonal(tabs)
                  ELSE IF how = "vertical"
                       THEN pd_concat_vertical(tabs)
                       ELSE pd_concat_rows(tabs)
         IN IF r.ok
            THEN [heap |-> h \o <<r.tab, Wrapper(Len(h) + 1)>>,
                  ret |-> Ok(Len(h) + 2)]
            ELSE [heap |-> h, ret |-> Fail(r.err)]

(***************************************************************************)
(* The adapter: sportypy/data/frames.py                                    *)
(***************************************************************************)
\* Variant: nw.from_native(df, pass_through=True) hands back what it cannot wrap.
wrap_frame_pass_through(h, i) ==
    IF IsWrapped(h[i]) \/ IsNative(h[i]) THEN nw_from_native(h, i)
    ELSE [heap |-> h, ret |-> Ok(i)]

wrap_frame(h, i) == nw_from_native(h, i)

\* Variant: df.to_pandas() in place of df.to_native().
to_native_to_pandas(h, i) ==
    [heap |-> Append(h, [h[h[i].native] EXCEPT !.kind = "pandas"]),
     ret |-> Ok(Len(h) + 1)]

to_native(h, i) == nw_to_native(h, i)

pl_type_map == [int |-> "Int64", float |-> "Float64", str |-> "Utf8", bool |-> "Boolean"]

\* Variant: int mapped to a 32-bit dtype.
pd_type_map_int32 == [int |-> "int32", float |-> "float64", str |-> "object", bool |-> "bool"]

pd_type_map == [int |-> "int64", float |-> "float64", str |-> "object", bool |-> "bool"]

\* Variant: the comprehension runs over reversed(schema.items()).
MapSchemaReversed(schema, type_map, default) ==
    [i \in 1..Len(schema) |->
        Col(schema[Len(schema) + 1 - i].name,
            DictGet(type_map, schema[Len(schema) + 1 - i].dtype, default))]

\* {col: type_map.get(dtype, default) for col, dtype in schema.items()}
MapSchema(schema, type_map, default) ==
    [i \in 1..Len(schema) |->
        Col(schema[i].name, DictGet(type_map, schema[i].dtype, default))]

\* The TypeError of type_map.get on an unhashable schema value.
SchemaLookupError(schema) ==
    IF \E i \in 1..Len(schema) : ~Hashable(schema[i].dtype)
    THEN Err("TypeError", "python")
    ELSE NoErr

\* pl.DataFrame(schema=pl_schema)
pl_DataFrame(pl_schema) == Table("polars", pl_schema, <<>>)

\* pd.DataFrame(columns=names): no rows, every column of dtype object.
pd_DataFrame(names) ==
    Table("pandas", [i \in 1..Len(names) |-> Col(names[i], "object")], <<>>)

\* DataFrame.astype(pd_schema): each column named in pd_schema gets its dtype.
pd_astype(df, pd_schema) ==
    [df EXCEPT !.cols =
        [i \in 1..Len(df.cols) |->
            LET hit == {j \in 1..Len(pd_schema) : pd_schema[j].name = df.cols[i].name}
            IN IF hit = {} THEN df.cols[i]
               ELSE Col(df.cols[i].name, pd_schema[CHOOSE j \in hit : TRUE].dtype)]]

\* Variant: an identifier other than "pandas" builds a polars frame.
create_empty_frame_default_polars(h, schema, backend) ==
    IF SchemaLookupError(schema) # NoErr
    THEN [heap |-> h, ret |-> Fail(SchemaLookupError(schema))]
    ELSE LET native_df ==
                 IF backend = "pandas"
                 THEN pd_astype(pd_DataFrame(ColNames(schema)),
                                MapSchema(schema, pd_type_map, "object"))
                 ELSE pl_DataFrame(MapSchema(schema, pl_type_map, "Utf8"))
         IN nw_from_native(Append(h, native_df), Len(h) + 1)

\* Variant: the schema lookup sits in a try block that re-raises ValueError.
create_empty_frame_reraises(h, schema, backend) ==
    IF backend \in Backends
    THEN IF SchemaLookupError(schema) # NoErr
         THEN [heap |-> h, ret |-> Fail(Err("ValueError", "adapter"))]
         ELSE LET native_df ==
                      IF backend = "pandas"
                      THEN pd_astype(pd_DataFrame(ColNames(schema)),
                                     MapSchema(schema, pd_type_map, "object"))
                      ELSE pl_DataFrame(MapSchema(schema, pl_type_map, "Utf8"))
              IN nw_from_native(Append(h, native_df), Len(h) + 1)
    ELSE [heap |-> h, ret |-> Fail(Err("ValueError", "adapter"))]

create_empty_frame(h, schema, backend) ==
    IF backend = "polars"
    THEN IF SchemaLookupError(schema) # NoErr
         THEN [heap |-> h, ret |-> Fail(SchemaLookupError(schema))]
         ELSE LET pl_schema == MapSchema(schema, pl_type_map, "Utf8")
                  native_df == pl_DataFrame(pl_schema)
              IN nw_from_native(Append(h, native_df), Len(h) + 1)
    ELSE IF backend = "pandas"
    THEN IF SchemaLookupError(schema) # NoErr
         THEN [heap |-> h, ret |-> Fail(SchemaLookupError(schema))]
         ELSE LET pd_schema == MapSchema(schema, pd_type_map, "object")
                  native_df == pd_astype(pd_DataFrame(ColNames(schema)), pd_schema)
              IN nw_from_native(Append(h, native_df), Len(h) + 1)
    ELSE [heap |-> h, ret |-> Fail(Err("ValueError", "adapter"))]

\* Variant: an empty list returns None instead of calling nw.concat.
concat_frames_empty_ok(h, frames, how) ==
    IF frames = <<>> THEN [heap |-> h, ret |-> Ok(0)] ELSE nw_concat(h, frames, how)

\* Variant: how is not forwarded, nw.concat runs with its default "vertical".
concat_frames_ignores_how(h, frames, how) == nw_concat(h, frames, "vertical")

\* Variant: the list is concatenated back to front.
concat_frames_reversed(h, frames, how) ==
    nw_concat(h, [k \in 1..Len(frames) |-> frames[Len(frames) + 1 - k]], how)

\* Variant: the rows are stacked into the first frame's table (extend in place).
concat_frames_in_place(h, frames, how) ==
    LET r == nw_concat(h, frames, how)
    IN IF r.ret.ok
       THEN [r EXCEPT !.heap[h[frames[1]].native] = r.heap[Len(h) + 1]]
       ELSE r

concat_frames(h, frames, how) == nw_concat(h, frames, how)

\* The call's mutable argument (the schema dict, the frames list) as the call
\* leaves it: no function of the module assigns to, or calls a method of,
\* its argument other than items(), keys() and to_native().
SchemaAfter(schema) == schema

FramesAfter(frames) == frames

(***************************************************************************)
(* Calls                                                                   *)
(***************************************************************************)
NoArgs == [schema |-> <<>>, frames |-> <<>>]

Call(name, arg, schema, backend, frames, how) ==
    [name |-> name, arg |-> arg, schema |-> schema, backend |-> backend,
     frames |-> frames, how |-> how]

NoCall == Call("", 0, <<>>, "", <<>>, "")

\* snap[j] is the table a wrap_frame call wrapped into wrapper j, as it was
\* at that call.
SnapAfter(h2, wrapped) ==
    [j \in 1..Len(h2) |->
        IF j <= Len(snap) THEN snap[j]
        ELSE IF IsWrapped(h2[j]) THEN wrapped ELSE NoSnap]

WrapFrame(i) ==
    LET r == wrap_frame(heap, i)
    IN /\ Len(r.heap) <= MaxHeap
       /\ heap' = r.heap
       /\ ret' = r.ret
       /\ op' = Call("wrap_frame", i, <<>>, "", <<>>, "")
       /\ raised' = nw_from_native(heap, i).ret.err
       /\ args' = NoArgs
       /\ snap' = SnapAfter(r.heap, heap[i])

ToNative(i) ==
    LET r == to_native(heap, i)
    IN /\ IsWrapped(heap[i])
       /\ heap' = r.heap
       /\ ret' = r.ret
       /\ op' = Call("to_native", i, <<>>, "", <<>>, "")
       /\ raised' = nw_to_native(heap, i).ret.err
       /\ args' = NoArgs
       /\ snap' = SnapAfter(r.heap, NoSnap)

CreateEmptyFrame(schema, backend) ==
    LET r == create_empty_frame(heap, schema, backend)
    IN /\ Len(r.heap) <= MaxHeap
       /\ heap' = r.heap
       /\ ret' = r.ret
       /\ op' = Call("create_empty_frame", 0, schema, backend, <<>>, "")
       /\ raised' = IF backend \in Backends THEN SchemaLookupError(schema) ELSE NoErr
       /\ args' = [schema |-> SchemaAfter(schema), frames |-> <<>>]
       /\ snap' = SnapAfter(r.heap, NoSnap)

ConcatFrames(frames, how) ==
    LET r == concat_frames(heap, frames, how)
    IN /\ Len(r.heap) <= MaxHeap
       /\ heap' = r.heap
       /\ ret' = r.ret
       /\ op' = Call("concat_frames", 0, <<>>, "", frames, how)
       /\ raised' = nw_concat(heap, frames, how).ret.err
       /\ args' = [schema |-> <<>>, frames |-> FramesAfter(frames)]
       /\ snap' = SnapAfter(r.heap, NoSnap)

\* Inputs.
WrappedIds(h) == {i \in 1..Len(h) : IsWrapped(h[i])}

BackendOf(h, i) == h[h[i].native].kind

FrameLists(h) ==
    {<<>>} \cup {<<i>> : i \in WrappedIds(h)}
           \cup {<<p[1], p[2]>> :
                    p \in {q \in WrappedIds(h) \X WrappedIds(h) :
                              BackendOf(h, q[1]) = BackendOf(h, q[2])}}

Schemas ==
    {<<>>} \cup {<<Col(n, t)>> : n \in Names, t \in SchemaValues}
           \cup {<<Col(p[1], t1), Col(p[2], t2)>> :
                    p \in {q \in Names \X Names : q[1] # q[2]},
                    t1 \in SchemaValues, t2 \in SchemaValues}

SessionSchemas ==
    {<<Col("id", "str")>>, <<Col("score", "unhashable")>>}

(***************************************************************************)
(* Spec: the caller holds two objects of which the first is a table and    *)
(* the second a table of the same backend or no table at all, together     *)
(* with the narwhals frames wrap_frame made of the tables, and makes calls *)
(* in any order.                                                           *)
(***************************************************************************)
InitHeaps ==
    {<<a, b, Wrapper(1), Wrapper(2)>> :
        a \in Seeds(1), b \in Seeds(2)} \cup
    {<<a, Other, Wrapper(1), Wrapper(1)>> : a \in Seeds(1)}

Init ==
    /\ heap \in {h \in InitHeaps : IsNative(h[2]) => h[2].kind = h[1].kind}
    /\ ret = Ok(0)
    /\ op = NoCall
    /\ raised = NoErr
    /\ args = NoArgs
    /\ snap = [j \in 1..Len(heap) |->
                 IF IsWrapped(heap[j]) THEN heap[heap[j].native] ELSE NoSnap]

Next ==
    \/ \E i \in 1..Len(heap) : WrapFrame(i)
    \/ \E i \in 1..Len(heap) : ToNative(i)
    \/ \E s \in SessionSchemas, b \in BackendIds : CreateEmptyFrame(s, b)
    \/ \E fs \in FrameLists(heap), how \in Hows : ConcatFrames(fs, how)

Spec == Init /\ [][Next]_vars

(***************************************************************************)
(* SpecCreate: one create_empty_frame call on every schema of up to two    *)
(* columns and every backend identifier, then conversions back.            *)
(***************************************************************************)
InitCreate ==
    /\ heap = <<>>
    /\ ret = Ok(0)
    /\ op = NoCall
    /\ raised = NoErr
    /\ args = NoArgs
    /\ snap = <<>>

NextCreate ==
    \/ /\ heap = <<>>
       /\ \E s \in Schemas, b \in BackendIds : CreateEmptyFrame(s, b)
    \/ \E i \in 1..Len(heap) : ToNative(i)

SpecCreate == InitCreate /\ [][NextCreate]_vars

(***************************************************************************)
(* Properties                                                              *)
(***************************************************************************)
\* The table behind a narwhals frame.
NativeOf(h, w) == h[h[w].native]

\* The tables of the last concat_frames call.
Frame(k) == NativeOf(heap, op.frames[k])

NameSet(t) == Range(ColNames(t.cols))

IsConcat2(how) == op.name = "concat_frames" /\ op.how = how /\ Len(op.frames) = 2

IsCreate == op.name = "create_empty_frame"

SchemaFidelity ==
    (/\ IsCreate /\ op.backend \in Backends
     /\ \A i \in 1..Len(op.schema) : op.schema[i].dtype \in PyTypes) =>
        /\ ret.ok /\ IsWrapped(heap[ret.val])
        /\ LET t == NativeOf(heap, ret.val)
           IN /\ t.kind = op.backend
              /\ Len(t.cols) = Len(op.schema)
              /\ ColNames(t.cols) = ColNames(op.schema)
              /\ t.rows = <<>>

SchemaFidelityWitness ==
    /\ IsCreate /\ ret.ok /\ op.backend = "polars"
    /\ op.schema = <<Col("score", "bool"), Col("id", "str")>>

\* C3 as stated: an unsupported backend identifier fails with
\* UnsupportedBackendError.
BackendRejectionAsStated ==
    (IsCreate /\ op.backend \notin Backends) =>
        ~ret.ok /\ ret.err.cls = "UnsupportedBackendError"

\* C3: backend rejection.  create_empty_frame with a backend identifier other
\* than "polars" and "pandas" fails, for every schema (well-formed or not),
\* with the ValueError the function raises itself, and allocates no table.
BackendRejection ==
    (IsCreate /\ op.backend \notin Backends) =>
        ~ret.ok /\ ret.err = Err("ValueError", "adapter") /\ heap = <<>>

BackendRejectionWitness ==
    /\ IsCreate /\ op.backend = "unsupported_engine" /\ ~ret.ok
    /\ op.schema = <<Col("id", "int")>>

\* C4 as stated: an empty list fails with EmptyInputError.
EmptyInputAsStated ==
    (op.name = "concat_frames" /\ op.frames = <<>>) =>
        ~ret.ok /\ ret.err.cls = "EmptyInputError"

\* C4: empty input.  concat_frames of an empty list fails, in every mode, with
\* the ValueError nw.concat raises.
EmptyInput ==
    (op.name = "concat_frames" /\ op.frames = <<>>) =>
        ~ret.ok /\ ret.err = Err("ValueError", "narwhals")

EmptyInputWitness ==
    op.name = "concat_frames" /\ op.frames = <<>> /\ op.how = "vertical" /\ ~ret.ok

Disjoint2 == NameSet(Frame(1)) \cap NameSet(Frame(2)) = {}

\* "diagonal" of two tables with disjoint columns: the union of the columns,
\* the rows of the first then of the second, every cell either the cell of
\* the originating table or the missing-value marker.
DiagonalUnion ==
    (IsConcat2("diagonal") /\ Disjoint2) =>
        /\ ret.ok
        /\ LET t == NativeOf(heap, ret.val)
               f1 == Frame(1)
               f2 == Frame(2)
               n1 == Len(f1.rows)
           IN /\ t.kind = f1.kind
              /\ NameSet(t) = NameSet(f1) \cup NameSet(f2)
              /\ Len(t.cols) = Len(f1.cols) + Len(f2.cols)
              /\ Len(t.rows) = n1 + Len(f2.rows)
              /\ \A r \in 1..Len(t.rows), c \in 1..Len(t.cols) :
                    LET f == IF r <= n1 THEN f1 ELSE f2
                        fr == IF r <= n1 THEN r ELSE r - n1
                        n == t.cols[c].name
                    IN t.rows[r][c] =
                          IF n \in NameSet(f)
                          THEN f.rows[fr][Pos(ColNames(f.cols), n)]
                          ELSE NullMarker

\* C5 as stated: "vertical" of two tables with disjoint columns fails with
\* SchemaMismatchError, "diagonal" gives the union with missing markers.
ModeRejectionAsStated ==
    /\ (IsConcat2("vertical") /\ Disjoint2) =>
          ~ret.ok /\ ret.err.cls = "SchemaMismatchError"
    /\ DiagonalUnion

\* C5: mode rejection.  "vertical" of two same-backend tables with disjoint
\* columns fails with the error of the layer below (polars' ShapeError for
\* polars tables, narwhals' TypeError for pandas tables) and makes no table;
\* "diagonal" of the same pair succeeds with the union of the columns and
\* missing-value markers in the cells of the columns a table does not have.
ModeRejection ==
    /\ (IsConcat2("vertical") /\ Disjoint2) =>
          /\ ~ret.ok
          /\ ret.err = IF Frame(1).kind = "polars"
                       THEN Err("ShapeError", "polars")
                       ELSE Err("TypeError", "narwhals")
    /\ DiagonalUnion

ModeRejectionWitness ==
    /\ IsConcat2("diagonal") /\ Disjoint2 /\ ret.ok
    /\ Len(Frame(1).rows) > 0 /\ Len(Frame(2).rows) > 0
    /\ op.frames[1] # op.frames[2]

\* The result of a "vertical" concat of two: rows of the first then of the
\* second, columns as in the first.
StackedInOrder ==
    /\ ret.ok
    /\ LET t == NativeOf(heap, ret.val)
       IN /\ Len(t.rows) = Len(Frame(1).rows) + Len(Frame(2).rows)
          /\ t.rows = Frame(1).rows \o Frame(2).rows
          /\ ColNames(t.cols) = ColNames(Frame(1).cols)

\* C6 as stated: two tables with the same set of column names stack in
\* "vertical" mode.
ConcatOrderingAsStated ==
    (IsConcat2("vertical") /\ NameSet(Frame(1)) = NameSet(Frame(2))) => StackedInOrder

\* C6: concat ordering.  For two same-backend tables with the same column
\* names in the same order and the same column types, "vertical"
\* concat_frames([f1, f2]) succeeds, has rows(f1) + rows(f2) rows, f1's rows
\* followed by f2's in their order, and f1's column order; with the same
\* names in another order it fails.
ConcatOrdering ==
    /\ (IsConcat2("vertical") /\ Frame(1).cols = Frame(2).cols) => StackedInOrder
    /\ (/\ IsConcat2("vertical")
        /\ NameSet(Frame(1)) = NameSet(Frame(2))
        /\ ColNames(Frame(1).cols) # ColNames(Frame(2).cols)) => ~ret.ok

ConcatOrderingWitness ==
    /\ IsConcat2("vertical") /\ ret.ok
    /\ op.frames[1] # op.frames[2]
    /\ Len(Frame(1).cols) = 2
    /\ Len(Frame(1).rows) > 0 /\ Len(Frame(2).rows) > 0

\* C7 as stated: wrap_frame of something that is no table fails with
\* UnsupportedBackendError.
WrapRejectionAsStated ==
    (op.name = "wrap_frame" /\ heap[op.arg].kind = "other") =>
        ~ret.ok /\ ret.err.cls = "UnsupportedBackendError"

\* C7: wrap_frame of an object that is neither a polars or pandas table nor a
\* narwhals frame fails with the TypeError nw.from_native raises, and no
\* frame is made.
WrapRejection ==
    (op.name = "wrap_frame" /\ heap[op.arg].kind = "other") =>
        /\ ~ret.ok /\ ret.err = Err("TypeError", "narwhals")
        /\ \A j \in 1..Len(heap) : IsWrapped(heap[j]) => heap[j].native # op.arg

WrapRejectionWitness ==
    op.name = "wrap_frame" /\ heap[op.arg].kind = "other" /\ ~ret.ok

\* The storage a backend dtype stands for.
StorageOf(dtype) ==
    CASE dtype \in {"Int64", "int64"} -> "64-bit signed integer"
      [] dtype \in {"Float64", "float64"} -> "64-bit float"
      [] dtype \in {"Utf8", "object"} -> "text"
      [] dtype \in {"Boolean", "bool"} -> "boolean"
      [] OTHER -> "unknown"

\* The storage the specification asks for a schema value.
StorageFor(pytype) ==
    CASE pytype = "int" -> "64-bit signed integer"
      [] pytype = "float" -> "64-bit float"
      [] pytype = "bool" -> "boolean"
      [] OTHER -> "text"

\* C8: type mapping.  On both backends every column of the created table has
\* 64-bit signed integer storage for int, 64-bit float for float, the backend's
\* text storage (polars Utf8, pandas object) for str and for a type outside
\* the four, boolean for bool; and {"id": int, "score": float} on "polars",
\* converted back with to_native, has columns id, score of Int64, Float64.
TypeMapping ==
    /\ (IsCreate /\ op.backend \in Backends /\ SchemaLookupError(op.schema) = NoErr) =>
          /\ ret.ok
          /\ LET t == heap[to_native(heap, ret.val).ret.val]
             IN /\ Len(t.cols) = Len(op.schema)
                /\ \A i \in 1..Len(t.cols) :
                      /\ StorageOf(t.cols[i].dtype) = StorageFor(op.schema[i].dtype)
                      /\ t.cols[i].dtype \in
                            (IF op.backend = "polars"
                             THEN {"Int64", "Float64", "Utf8", "Boolean"}
                             ELSE {"int64", "float64", "object", "bool"})
    /\ (/\ IsCreate /\ op.backend = "polars"
        /\ op.schema = <<Col("id", "int"), Col("score", "float")>>) =>
          /\ ret.ok
          /\ LET t == heap[to_native(heap, ret.val).ret.val]
             IN /\ t.kind = "polars" /\ t.rows = <<>>
                /\ t.cols = <<Col("id", "Int64"), Col("score", "Float64")>>

TypeMappingWitness ==
    /\ IsCreate /\ op.backend = "pandas" /\ ret.ok
    /\ op.schema = <<Col("id", "int"), Col("score", "bytes")>>

StatedAdapterErrors ==
    {"UnsupportedBackendError", "SchemaMismatchError", "EmptyInputError"}

\* An error raised below the adapter reaches the caller as it was raised.
Propagates == (raised # NoErr) => (~ret.ok /\ ret.err = raised)

\* C10 as stated: errors from below propagate unchanged and the adapter adds
\* only the three errors of the specification's taxonomy.
ErrorPropagationAsStated ==
    /\ Propagates
    /\ (~ret.ok /\ ret.err # raised) =>
          ret.err.origin = "adapter" /\ ret.err.cls \in StatedAdapterErrors

\* C10: error propagation.  An error raised by narwhals, a backend or the
\* schema lookup during any of the four calls reaches the caller unchanged;
\* the one error the adapter raises itself is the ValueError of
\* create_empty_frame for an unsupported backend identifier.
ErrorPropagation ==
    /\ Propagates
    /\ (~ret.ok /\ ret.err # raised) =>
          /\ ret.err = Err("ValueError", "adapter")
          /\ IsCreate /\ op.backend \notin Backends

ErrorPropagationWitness ==
    /\ IsCreate /\ op.backend = "pandas" /\ ~ret.ok
    /\ raised = Err("TypeError", "python")

====
